---- MODULE Spec2Model ----
(***************************************************************************)
(* A model of src/src/mdpu.rs: the ProcessingUnit (registers, memory,      *)
(* stack_pointer), its bounds-checked primitive operations, and the        *)
(* fetch-decode-execute loop of execute_program / run.                     *)
(*                                                                         *)
(* Registers and memory cells are Rust i32 values.  TLC's integers are     *)
(* 32-bit too, so every i32 operation below is computed without ever       *)
(* forming an intermediate value outside [MinI32, MaxI32].                 *)
(***************************************************************************)
EXTENDS Integers, Sequences, FiniteSets, TLC

(***************************************************************************)
(* Bounds of the model.                                                    *)
(***************************************************************************)
\* program.len() ranges over 0..MaxProgLen
MaxProgLen == 4
\* memory_size ranges over 1..MaxMem
MaxMem == 3
\* num_registers
NumRegs == 2
\* mic ranges over 0..MaxMic
MaxMic == 4

(***************************************************************************)
(* i32 arithmetic (registers: Vec<i32>, memory: Vec<i32>).                 *)
(***************************************************************************)
MaxI32 == 2147483647
MinI32 == (-MaxI32) - 1

\* a + b overflows i32
AddOverflows(a, b) ==
    \/ (a > 0 /\ b > 0 /\ a > MaxI32 - b)
    \/ (a < 0 /\ b < 0 /\ a < MinI32 - b)

\* a + b modulo 2^32, as a signed value (i32::wrapping_add)
WrapAdd(a, b) ==
    IF a > 0 /\ b > 0 /\ a > MaxI32 - b
      THEN (((a - MaxI32) - 1) + b) - MaxI32 - 1
    ELSE IF a < 0 /\ b < 0 /\ a < MinI32 - b
      THEN (((a + MaxI32) + 1) + b) + MaxI32 + 1
    ELSE a + b

\* -a overflows exactly for MinI32
NegOverflows(a) == a = MinI32

\* i32::wrapping_neg
WrapNeg(a) == IF a = MinI32 THEN MinI32 ELSE -a

SubOverflows(a, b) ==
    \/ (a >= 0 /\ b < 0 /\ a > MaxI32 + b)
    \/ (a < 0 /\ b > 0 /\ a < MinI32 + b)

\* i32::wrapping_sub
WrapSub(a, b) ==
    IF a >= 0 /\ b < 0 /\ a > MaxI32 + b
      THEN (((a - MaxI32) - 1) - b) - MaxI32 - 1
    ELSE IF a < 0 /\ b > 0 /\ a < MinI32 + b
      THEN (((a + MaxI32) + 1) - b) + MaxI32 + 1
    ELSE a - b

\* the signed value of the 32-bit word whose top (32 - 8k) bits are the low
\* bits of u and whose low 8k bits are zero: (u * 256^k) modulo 2^32
ShiftedByte(u, k) ==
    LET width == 2 ^ (32 - (8 * k))
        low   == u % width
    IN  IF low >= width \div 2 THEN (low - width) * (256 ^ k) ELSE low * (256 ^ k)

\* byte i of a (bytes 0..2 unsigned, byte 3 carries the sign)
Byte(a, i) == IF i = 3 THEN a \div 16777216 ELSE (a \div (256 ^ i)) % 256

\* i32::wrapping_mul: schoolbook multiplication on bytes, modulo 2^32
WrapMul(a, b) ==
    LET s0 == Byte(a, 0) * Byte(b, 0)
        s1 == Byte(a, 0) * Byte(b, 1) + Byte(a, 1) * Byte(b, 0)
        s2 == Byte(a, 0) * Byte(b, 2) + Byte(a, 1) * Byte(b, 1) + Byte(a, 2) * Byte(b, 0)
        s3 == Byte(a, 0) * Byte(b, 3) + Byte(a, 1) * Byte(b, 2)
                + Byte(a, 2) * Byte(b, 1) + Byte(a, 3) * Byte(b, 0)
    IN  WrapAdd(WrapAdd(s0, ShiftedByte(s1, 1)),
                WrapAdd(ShiftedByte(s2, 2), ShiftedByte(s3, 3)))

\* the i32 quotient truncated toward zero; b # 0 and not (a = MinI32 /\ b = -1)
TruncDivPos(a, b) ==
    IF a >= 0 THEN a \div b
    ELSE (a \div b) + (IF a % b # 0 THEN 1 ELSE 0)

TruncDiv(a, b) ==
    IF b > 0 THEN TruncDivPos(a, b)
    ELSE IF b = MinI32 THEN (IF a = MinI32 THEN 1 ELSE 0)
    ELSE -TruncDivPos(a, -b)

\* the i32 remainder (sign follows the dividend)
TruncRem(a, b) ==
    IF b = MinI32 THEN (IF a = MinI32 THEN 0 ELSE a)
    ELSE a - (TruncDiv(a, b) * b)

\* i32 `/` and `%` panic on MinI32 / -1 in every build
DivOverflows(a, b) == a = MinI32 /\ b = -1

\* a * b overflows i32
MulOverflows(a, b) ==
    IF a = 0 \/ b = 0 THEN FALSE
    ELSE IF a > 0 /\ b > 0 THEN a > MaxI32 \div b
    ELSE IF a > 0 /\ b < 0 THEN b < TruncDiv(MinI32, a)
    ELSE IF a < 0 /\ b > 0 THEN a < TruncDiv(MinI32, b)
    ELSE a < TruncDiv(MaxI32, b)

\* two's complement bitwise operations, bit by bit
RECURSIVE AndBits(_, _)
AndBits(a, b) ==
    IF a = 0 \/ b = 0 THEN 0
    ELSE IF a = -1 THEN b
    ELSE IF b = -1 THEN a
    ELSE 2 * AndBits(a \div 2, b \div 2) + ((a % 2) * (b % 2))

RECURSIVE OrBits(_, _)
OrBits(a, b) ==
    IF a = 0 THEN b
    ELSE IF b = 0 THEN a
    ELSE IF a = -1 \/ b = -1 THEN -1
    ELSE 2 * OrBits(a \div 2, b \div 2) + (IF a % 2 = 1 \/ b % 2 = 1 THEN 1 ELSE 0)

RECURSIVE XorBits(_, _)
XorBits(a, b) ==
    IF a = 0 THEN b
    ELSE IF b = 0 THEN a
    ELSE IF a = -1 /\ b = -1 THEN 0
    ELSE 2 * XorBits(a \div 2, b \div 2) + (IF (a % 2) # (b % 2) THEN 1 ELSE 0)

\* i32 `&`, `|`, `^`: the high and the low 16 bits separately
BitAnd(a, b) ==
    AndBits(a \div 65536, b \div 65536) * 65536 + AndBits(a % 65536, b % 65536)

BitOr(a, b) ==
    OrBits(a \div 65536, b \div 65536) * 65536 + OrBits(a % 65536, b % 65536)

BitXor(a, b) ==
    XorBits(a \div 65536, b \div 65536) * 65536 + XorBits(a % 65536, b % 65536)

\* i32 `!`
BitNot(a) == IF a >= 0 THEN (-a) - 1 ELSE -(a + 1)

\* a shift amount outside 0..31 is an overflow of `<<` / `>>`
ShiftOverflows(s) == s < 0 \/ s > 31

\* i32::wrapping_shl / wrapping_shr: the amount is taken modulo 32
WrapShl(a, s) ==
    IF s % 32 = 31 THEN (IF a % 2 = 1 THEN MinI32 ELSE 0)
    ELSE WrapMul(a, 2 ^ (s % 32))

\* `>>` on i32 is an arithmetic shift
WrapShr(a, s) ==
    IF s % 32 = 31 THEN (IF a < 0 THEN -1 ELSE 0)
    ELSE a \div (2 ^ (s % 32))

AbsOverflows(a) == a = MinI32
WrapAbs(a) == IF a < 0 THEN WrapNeg(a) ELSE a


(***************************************************************************)
(* Outcomes of a primitive operation.  The code reports a fault with       *)
(* eprintln! and std::process::exit(1); a Rust panic (arithmetic overflow  *)
(* with overflow checks on, MinI32 / -1) is a third way out.               *)
(***************************************************************************)
NoFault == [kind |-> "None", operand |-> 0, value |-> 0]
RegisterOutOfBounds(reg) == [kind |-> "RegisterOutOfBounds", operand |-> reg, value |-> 0]
MemoryOutOfBounds(addr) == [kind |-> "MemoryOutOfBounds", operand |-> addr, value |-> 0]
DivisionByZero(reg, v) == [kind |-> "DivisionByZero", operand |-> reg, value |-> v]
StackOverflow(reg) == [kind |-> "StackOverflow", operand |-> reg, value |-> 0]
StackUnderflow(reg) == [kind |-> "StackUnderflow", operand |-> reg, value |-> 0]
InstructionBudgetExceeded == [kind |-> "InstructionBudgetExceeded", operand |-> 0, value |-> 0]

\* the operation completed; ovf: its arithmetic overflowed (and wrapped)
Ok(pu, ovf) == [pu |-> pu, status |-> "ok", fault |-> NoFault, overflowed |-> ovf]
\* eprintln!(...); std::process::exit(1), with the unit as it is at that point
Exit(pu, f) == [pu |-> pu, status |-> "exit", fault |-> f, overflowed |-> FALSE]
\* a Rust panic, with the unit as it is at that point
Panic(pu, ovf) == [pu |-> pu, status |-> "panic", fault |-> NoFault, overflowed |-> ovf]

(***************************************************************************)
(* ProcessingUnit: [registers, memory, stack_pointer], both vectors        *)
(* indexed from 0.                                                         *)
(***************************************************************************)
initialize(num_registers, memory_size) ==
    [registers     |-> [i \in 0..(num_registers - 1) |-> 0],
     memory        |-> [i \in 0..(memory_size - 1) |-> 0],
     stack_pointer |-> memory_size - 1]

RegLen(pu) == Cardinality(DOMAIN pu.registers)
MemLen(pu) == Cardinality(DOMAIN pu.memory)

\* TRUE when check_register_bounds(reg) returns (does not exit)
check_register_bounds(pu, reg) == ~(reg >= RegLen(pu))

\* the checks of `regs` in order: the first register that fails, or NoFault
RECURSIVE CheckRegisters(_, _)
CheckRegisters(pu, regs) ==
    IF regs = << >> THEN NoFault
    ELSE IF ~check_register_bounds(pu, Head(regs)) THEN RegisterOutOfBounds(Head(regs))
    ELSE CheckRegisters(pu, Tail(regs))

SetReg(pu, reg, v) == [pu EXCEPT !.registers[reg] = v]

\* `registers[dst] = <arithmetic>`: with overflow checks on, an overflowing
\* operation panics before the assignment; otherwise the wrapped value is stored
Arith(pu, dst, wrapped, ovf, checks) ==
    IF ovf /\ checks THEN Panic(pu, TRUE) ELSE Ok(SetReg(pu, dst, wrapped), ovf)

add(pu, reg1, reg2, reg3, checks) ==
    LET f == CheckRegisters(pu, <<reg1, reg2, reg3>>) IN
    IF f # NoFault THEN Exit(pu, f)
    ELSE Arith(pu, reg3, WrapAdd(pu.registers[reg1], pu.registers[reg2]),
               AddOverflows(pu.registers[reg1], pu.registers[reg2]), checks)

subtract(pu, reg1, reg2, reg3, checks) ==
    LET f == CheckRegisters(pu, <<reg1, reg2, reg3>>) IN
    IF f # NoFault THEN Exit(pu, f)
    ELSE Arith(pu, reg3, WrapSub(pu.registers[reg1], pu.registers[reg2]),
               SubOverflows(pu.registers[reg1], pu.registers[reg2]), checks)

multiply(pu, reg1, reg2, reg3, checks) ==
    LET f == CheckRegisters(pu, <<reg1, reg2, reg3>>) IN
    IF f # NoFault THEN Exit(pu, f)
    ELSE Arith(pu, reg3, WrapMul(pu.registers[reg1], pu.registers[reg2]),
               MulOverflows(pu.registers[reg1], pu.registers[reg2]), checks)

\* mutant of divide: the fault names the dividend register instead of the divisor
divide_reports_dividend(pu, reg1, reg2, reg3) ==
    LET f == CheckRegisters(pu, <<reg1, reg2, reg3>>) IN
    IF f # NoFault THEN Exit(pu, f)
    ELSE IF pu.registers[reg2] # 0
      THEN IF DivOverflows(pu.registers[reg1], pu.registers[reg2])
             THEN Panic(pu, FALSE)
             ELSE Ok(SetReg(pu, reg3, TruncDiv(pu.registers[reg1], pu.registers[reg2])), FALSE)
      ELSE Exit(pu, DivisionByZero(reg1, pu.registers[reg1]))

divide(pu, reg1, reg2, reg3) ==
    LET f == CheckRegisters(pu, <<reg1, reg2, reg3>>) IN
    IF f # NoFault THEN Exit(pu, f)
    ELSE IF pu.registers[reg2] # 0
      THEN IF DivOverflows(pu.registers[reg1], pu.registers[reg2])
             THEN Panic(pu, FALSE)
             ELSE Ok(SetReg(pu, reg3, TruncDiv(pu.registers[reg1], pu.registers[reg2])), FALSE)
      ELSE Exit(pu, DivisionByZero(reg2, pu.registers[reg2]))

neg(pu, reg1, reg2, checks) ==
    LET f == CheckRegisters(pu, <<reg1, reg2>>) IN
    IF f # NoFault THEN Exit(pu, f)
    ELSE Arith(pu, reg2, WrapNeg(pu.registers[reg1]), NegOverflows(pu.registers[reg1]), checks)

absolute(pu, reg1, reg2, checks) ==
    LET f == CheckRegisters(pu, <<reg1, reg2>>) IN
    IF f # NoFault THEN Exit(pu, f)
    ELSE Arith(pu, reg2, WrapAbs(pu.registers[reg1]), AbsOverflows(pu.registers[reg1]), checks)

mod_op(pu, reg1, reg2, reg3) ==
    LET f == CheckRegisters(pu, <<reg1, reg2, reg3>>) IN
    IF f # NoFault THEN Exit(pu, f)
    ELSE IF pu.registers[reg2] # 0
      THEN IF DivOverflows(pu.registers[reg1], pu.registers[reg2])
             THEN Panic(pu, FALSE)
             ELSE Ok(SetReg(pu, reg3, TruncRem(pu.registers[reg1], pu.registers[reg2])), FALSE)
      ELSE Exit(pu, DivisionByZero(reg2, pu.registers[reg2]))

\* mutant of store: an address past the end is clamped to the last cell
store_clamped(pu, reg, addr) ==
    IF ~check_register_bounds(pu, reg) THEN Exit(pu, RegisterOutOfBounds(reg))
    ELSE IF addr < MemLen(pu)
      THEN Ok([pu EXCEPT !.memory[addr] = pu.registers[reg]], FALSE)
      ELSE Ok([pu EXCEPT !.memory[MemLen(pu) - 1] = pu.registers[reg]], FALSE)

store(pu, reg, addr) ==
    IF ~check_register_bounds(pu, reg) THEN Exit(pu, RegisterOutOfBounds(reg))
    ELSE IF addr < MemLen(pu)
      THEN Ok([pu EXCEPT !.memory[addr] = pu.registers[reg]], FALSE)
      ELSE Exit(pu, MemoryOutOfBounds(addr))

\* mutant of load: the cell below the addressed one is read, when there is one
load_off_by_one(pu, addr, reg) ==
    IF ~check_register_bounds(pu, reg) THEN Exit(pu, RegisterOutOfBounds(reg))
    ELSE IF addr < MemLen(pu)
      THEN Ok(SetReg(pu, reg, pu.memory[IF addr > 0 THEN addr - 1 ELSE addr]), FALSE)
      ELSE Exit(pu, MemoryOutOfBounds(addr))

\* mutant of load: the read is destructive, the cell is zeroed
load_clears_cell(pu, addr, reg) ==
    IF ~check_register_bounds(pu, reg) THEN Exit(pu, RegisterOutOfBounds(reg))
    ELSE IF addr < MemLen(pu)
      THEN Ok([pu EXCEPT !.registers[reg] = pu.memory[addr], !.memory[addr] = 0], FALSE)
      ELSE Exit(pu, MemoryOutOfBounds(addr))

load(pu, addr, reg) ==
    IF ~check_register_bounds(pu, reg) THEN Exit(pu, RegisterOutOfBounds(reg))
    ELSE IF addr < MemLen(pu)
      THEN Ok(SetReg(pu, reg, pu.memory[addr]), FALSE)
      ELSE Exit(pu, MemoryOutOfBounds(addr))

\* mutant of push: the guard lets a Push through at stack_pointer = 0
push_guard_off_by_one(pu, reg) ==
    IF ~check_register_bounds(pu, reg) THEN Exit(pu, RegisterOutOfBounds(reg))
    ELSE IF pu.stack_pointer >= 0
      THEN Ok([pu EXCEPT !.memory[pu.stack_pointer] = pu.registers[reg],
                         !.stack_pointer = pu.stack_pointer - 1], FALSE)
      ELSE Exit(pu, StackOverflow(reg))

\* mutant of push: stack_pointer is decremented before the write
push_decrements_first(pu, reg) ==
    IF ~check_register_bounds(pu, reg) THEN Exit(pu, RegisterOutOfBounds(reg))
    ELSE IF pu.stack_pointer > 0
      THEN Ok([pu EXCEPT !.memory[pu.stack_pointer - 1] = pu.registers[reg],
                         !.stack_pointer = pu.stack_pointer - 1], FALSE)
      ELSE Exit(pu, StackOverflow(reg))

push(pu, reg) ==
    IF ~check_register_bounds(pu, reg) THEN Exit(pu, RegisterOutOfBounds(reg))
    ELSE IF pu.stack_pointer > 0
      THEN Ok([pu EXCEPT !.memory[pu.stack_pointer] = pu.registers[reg],
                         !.stack_pointer = pu.stack_pointer - 1], FALSE)
      ELSE Exit(pu, StackOverflow(reg))

\* mutant of pop: stack_pointer is incremented before the underflow check
pop_moves_before_check(pu, reg) ==
    IF ~check_register_bounds(pu, reg) THEN Exit(pu, RegisterOutOfBounds(reg))
    ELSE IF pu.stack_pointer + 1 <= MemLen(pu) - 1
      THEN Ok([pu EXCEPT !.stack_pointer = pu.stack_pointer + 1,
                         !.registers[reg] = pu.memory[pu.stack_pointer + 1]], FALSE)
      ELSE Exit([pu EXCEPT !.stack_pointer = pu.stack_pointer + 1], StackUnderflow(reg))

\* mutant of pop: the register is read from memory[stack_pointer] before the increment
pop_reads_before_increment(pu, reg) ==
    IF ~check_register_bounds(pu, reg) THEN Exit(pu, RegisterOutOfBounds(reg))
    ELSE IF pu.stack_pointer < MemLen(pu) - 1
      THEN Ok([pu EXCEPT !.stack_pointer = pu.stack_pointer + 1,
                         !.registers[reg] = pu.memory[pu.stack_pointer]], FALSE)
      ELSE Exit(pu, StackUnderflow(reg))

\* mutant of pop: the guard reports underflow while one value is on the stack
pop_underflows_early(pu, reg) ==
    IF ~check_register_bounds(pu, reg) THEN Exit(pu, RegisterOutOfBounds(reg))
    ELSE IF pu.stack_pointer < MemLen(pu) - 2
      THEN Ok([pu EXCEPT !.stack_pointer = pu.stack_pointer + 1,
                         !.registers[reg] = pu.memory[pu.stack_pointer + 1]], FALSE)
      ELSE Exit(pu, StackUnderflow(reg))

pop(pu, reg) ==
    IF ~check_register_bounds(pu, reg) THEN Exit(pu, RegisterOutOfBounds(reg))
    ELSE IF pu.stack_pointer < MemLen(pu) - 1
      THEN Ok([pu EXCEPT !.stack_pointer = pu.stack_pointer + 1,
                         !.registers[reg] = pu.memory[pu.stack_pointer + 1]], FALSE)
      ELSE Exit(pu, StackUnderflow(reg))

mov(pu, reg1, reg2) ==
    LET f == CheckRegisters(pu, <<reg1, reg2>>) IN
    IF f # NoFault THEN Exit(pu, f)
    ELSE Ok(SetReg(pu, reg1, pu.registers[reg2]), FALSE)


(***************************************************************************)
(* Opcode arms written inline in execute_program.                          *)
(***************************************************************************)
load_immediate(pu, reg1, immediate) ==
    IF ~check_register_bounds(pu, reg1) THEN Exit(pu, RegisterOutOfBounds(reg1))
    ELSE Ok(SetReg(pu, reg1, immediate), FALSE)

and_op(pu, reg1, reg2, reg3) ==
    LET f == CheckRegisters(pu, <<reg1, reg2, reg3>>) IN
    IF f # NoFault THEN Exit(pu, f)
    ELSE Ok(SetReg(pu, reg3, BitAnd(pu.registers[reg1], pu.registers[reg2])), FALSE)

or_op(pu, reg1, reg2, reg3) ==
    LET f == CheckRegisters(pu, <<reg1, reg2, reg3>>) IN
    IF f # NoFault THEN Exit(pu, f)
    ELSE Ok(SetReg(pu, reg3, BitOr(pu.registers[reg1], pu.registers[reg2])), FALSE)

xor_op(pu, reg1, reg2, reg3) ==
    LET f == CheckRegisters(pu, <<reg1, reg2, reg3>>) IN
    IF f # NoFault THEN Exit(pu, f)
    ELSE Ok(SetReg(pu, reg3, BitXor(pu.registers[reg1], pu.registers[reg2])), FALSE)

not_op(pu, reg1, reg2) ==
    LET f == CheckRegisters(pu, <<reg1, reg2>>) IN
    IF f # NoFault THEN Exit(pu, f)
    ELSE Ok(SetReg(pu, reg2, BitNot(pu.registers[reg1])), FALSE)

shl_op(pu, reg1, reg2, reg3, checks) ==
    LET f == CheckRegisters(pu, <<reg1, reg2, reg3>>) IN
    IF f # NoFault THEN Exit(pu, f)
    ELSE Arith(pu, reg3, WrapShl(pu.registers[reg1], pu.registers[reg2]),
               ShiftOverflows(pu.registers[reg2]), checks)

shr_op(pu, reg1, reg2, reg3, checks) ==
    LET f == CheckRegisters(pu, <<reg1, reg2, reg3>>) IN
    IF f # NoFault THEN Exit(pu, f)
    ELSE Arith(pu, reg3, WrapShr(pu.registers[reg1], pu.registers[reg2]),
               ShiftOverflows(pu.registers[reg2]), checks)

cmp_op(pu, reg1, reg2, reg3, checks) ==
    LET f == CheckRegisters(pu, <<reg1, reg2, reg3>>) IN
    IF f # NoFault THEN Exit(pu, f)
    ELSE Arith(pu, reg3, WrapSub(pu.registers[reg1], pu.registers[reg2]),
               SubOverflows(pu.registers[reg1], pu.registers[reg2]), checks)

\* mutant of test_op: the comparison's result is dropped, reg3 is left alone
test_op_discards_result(pu, reg1, reg2, reg3) ==
    LET f == CheckRegisters(pu, <<reg1, reg2, reg3>>) IN
    IF f # NoFault THEN Exit(pu, f)
    ELSE Ok(pu, FALSE)

test_op(pu, reg1, reg2, reg3) ==
    LET f == CheckRegisters(pu, <<reg1, reg2, reg3>>) IN
    IF f # NoFault THEN Exit(pu, f)
    ELSE Ok(SetReg(pu, reg3, BitAnd(pu.registers[reg1], pu.registers[reg2])), FALSE)

inc_op(pu, reg1, checks) ==
    IF ~check_register_bounds(pu, reg1) THEN Exit(pu, RegisterOutOfBounds(reg1))
    ELSE Arith(pu, reg1, WrapAdd(pu.registers[reg1], 1),
               AddOverflows(pu.registers[reg1], 1), checks)

dec_op(pu, reg1, checks) ==
    IF ~check_register_bounds(pu, reg1) THEN Exit(pu, RegisterOutOfBounds(reg1))
    ELSE Arith(pu, reg1, WrapSub(pu.registers[reg1], 1),
               SubOverflows(pu.registers[reg1], 1), checks)

\* mutant of jz_taken: the test is inverted
jz_taken_inverted(pu, reg1) == pu.registers[reg1] # 0

\* Jz / Bz: whether the branch is taken, once the register is checked
jz_taken(pu, reg1) == pu.registers[reg1] = 0
\* Jnz / Bnz
jnz_taken(pu, reg1) == pu.registers[reg1] # 0
\* Je
je_taken(pu, reg1, reg2) == pu.registers[reg1] = pu.registers[reg2]
\* Jne
jne_taken(pu, reg1, reg2) == pu.registers[reg1] # pu.registers[reg2]

(***************************************************************************)
(* Instructions and the programs the model runs.                           *)
(***************************************************************************)
Instr(op, r1, r2, r3, a, imm) ==
    [opcode |-> op, reg1 |-> r1, reg2 |-> r2, reg3 |-> r3, addr |-> a, immediate |-> imm]

\* a program cell that has not been fetched yet
NoInstr == Instr("Unfetched", 0, 0, 0, 0, 0)


(***************************************************************************)
(* The bounded input space.  A run's program is drawn from one of the      *)
(* instruction sets below (a scenario); unused operand fields are 0, as in *)
(* main's sample program.  R0 and R1 are valid registers, register index   *)
(* NumRegs is the first one out of bounds; m is the memory size and n the  *)
(* program length, so address m and jump target n are the first ones out   *)
(* of range.                                                               *)
(***************************************************************************)
Scenarios ==
    {"stack", "memory", "jump", "jz", "bz", "je", "add", "mul", "div",
     "logic", "shift", "bounds", "budget"}

\* jump targets: backwards to the start, to the second instruction, off the end
Targets(n) == {0, 1, n}
\* addresses: the bottom and the top of memory, and the first one out of range
Addrs(m) == {0, m - 1, m}

ThreeRegOps == {"Add", "Sub", "Mul", "Div", "Mod", "And", "Or", "Xor", "Shl", "Shr", "Cmp", "Test"}
TwoRegOps == {"Mov", "Neg", "Abs", "Not"}
OneRegOps == {"LoadImmediate", "Push", "Pop", "Jz", "Jnz", "Bz", "Bnz", "Inc", "Dec"}

\* every opcode that takes registers, with one register operand out of bounds
OutOfBoundsInstrs(m) ==
    {Instr(op, NumRegs, 0, 0, 0, 0) : op \in ThreeRegOps \cup TwoRegOps \cup OneRegOps \cup {"Je", "Jne"}}
    \cup {Instr(op, 0, NumRegs, 0, 0, 0) : op \in ThreeRegOps \cup TwoRegOps \cup {"Je", "Jne"}}
    \cup {Instr(op, 0, 0, NumRegs, 0, 0) : op \in ThreeRegOps}
    \cup {Instr(op, r, 0, 0, a, 0) : op \in {"Store", "Load"}, r \in {0, NumRegs}, a \in {0, m, m + 1}}
    \cup {Instr(op, NumRegs + 1, 0, 0, 0, 0) : op \in {"Push", "Inc"}}

Alphabet(sc, m, n) ==
    CASE sc = "stack" ->
           {Instr("Push", r, 0, 0, 0, 0) : r \in {0, 1, NumRegs}}
           \cup {Instr("Pop", r, 0, 0, 0, 0) : r \in {0, 1, NumRegs}}
           \cup {Instr("Inc", 0, 0, 0, 0, 0), Instr("Halt", 0, 0, 0, 0, 0)}
      [] sc = "memory" ->
           {Instr("Store", 0, 0, 0, a, 0) : a \in Addrs(m)}
           \cup {Instr("Load", r, 0, 0, m - 1, 0) : r \in {0, 1}}
           \cup {Instr("Load", 1, 0, 0, a, 0) : a \in Addrs(m)}
           \cup {Instr("Inc", 0, 0, 0, 0, 0), Instr("Push", 0, 0, 0, 0, 0),
                 Instr("Pop", 1, 0, 0, 0, 0)}
      [] sc = "jump" ->
           {Instr(op, 0, 0, 0, t, 0) : op \in {"Jmp", "B"}, t \in Targets(n)}
           \cup {Instr("Nop", 0, 0, 0, 0, 0), Instr("Halt", 0, 0, 0, 0, 0)}
      [] sc = "jz" ->
           {Instr(op, r, 0, 0, t, 0) : op \in {"Jz", "Jnz"}, r \in {0, NumRegs}, t \in Targets(n)}
           \cup {Instr("Inc", 0, 0, 0, 0, 0), Instr("Dec", 0, 0, 0, 0, 0)}
      [] sc = "bz" ->
           {Instr(op, r, 0, 0, t, 0) : op \in {"Bz", "Bnz"}, r \in {0, NumRegs}, t \in Targets(n)}
           \cup {Instr("Inc", 0, 0, 0, 0, 0), Instr("Dec", 0, 0, 0, 0, 0)}
      [] sc = "je" ->
           {Instr(op, 0, 1, 0, t, 0) : op \in {"Je", "Jne"}, t \in Targets(n)}
           \cup {Instr(op, NumRegs, 1, 0, 0, 0) : op \in {"Je", "Jne"}}
           \cup {Instr(op, 0, NumRegs, 0, 0, 0) : op \in {"Je", "Jne"}}
           \cup {Instr("Inc", 0, 0, 0, 0, 0)}
      [] sc = "add" ->
           {Instr("LoadImmediate", 0, 0, 0, 0, MaxI32), Instr("LoadImmediate", 1, 0, 0, 0, MinI32),
            Instr("Add", 0, 0, 1, 0, 0), Instr("Sub", 1, 0, 1, 0, 0),
            Instr("Inc", 0, 0, 0, 0, 0), Instr("Dec", 1, 0, 0, 0, 0)}
      [] sc = "mul" ->
           {Instr("LoadImmediate", 0, 0, 0, 0, 65536), Instr("LoadImmediate", 1, 0, 0, 0, -3),
            Instr("Mul", 0, 1, 1, 0, 0), Instr("Mul", 0, 0, 0, 0, 0),
            Instr("Cmp", 0, 1, 0, 0, 0), Instr("Mov", 1, 0, 0, 0, 0)}
      [] sc = "div" ->
           {Instr("LoadImmediate", 0, 0, 0, 0, v) : v \in {MinI32, -7}}
           \cup {Instr("LoadImmediate", 1, 0, 0, 0, v) : v \in {-1, 2}}
           \cup {Instr("Div", 0, 1, 0, 0, 0), Instr("Mod", 0, 1, 1, 0, 0),
                 Instr("Neg", 0, 0, 0, 0, 0), Instr("Abs", 0, 1, 0, 0, 0)}
      [] sc = "logic" ->
           {Instr("LoadImmediate", 0, 0, 0, 0, -7), Instr("LoadImmediate", 1, 0, 0, 0, 5),
            Instr("And", 0, 1, 0, 0, 0), Instr("Test", 0, 1, 0, 0, 0),
            Instr("Or", 0, 1, 1, 0, 0), Instr("Xor", 0, 1, 0, 0, 0),
            Instr("Not", 0, 1, 0, 0, 0)}
      [] sc = "shift" ->
           {Instr("LoadImmediate", 0, 0, 0, 0, -7), Instr("LoadImmediate", 1, 0, 0, 0, 33),
            Instr("Inc", 1, 0, 0, 0, 0), Instr("Dec", 1, 0, 0, 0, 0),
            Instr("Shl", 0, 1, 0, 0, 0), Instr("Shr", 0, 1, 0, 0, 0)}
      [] sc = "bounds" ->
           OutOfBoundsInstrs(m) \cup {Instr("Nop", 0, 0, 0, 0, 0), Instr("Inc", 0, 0, 0, 0, 0)}
      [] sc = "budget" ->
           {Instr("Nop", 0, 0, 0, 0, 0), Instr("Inc", 0, 0, 0, 0, 0),
            Instr("Jmp", 0, 0, 0, 0, 0), Instr("Halt", 0, 0, 0, 0, 0)}

\* memory sizes and instruction budgets a scenario is run with
MemSizes(sc) == IF sc \in {"stack", "memory", "bounds"} THEN 1..MaxMem ELSE {MaxMem}
Budgets(sc) == IF sc = "budget" THEN 0..MaxMic ELSE {MaxMic}

\* the programs of length n a scenario starts with: in the budget scenario
\* every cell is fixed from the start, elsewhere a cell is fixed when the loop
\* first fetches it
Programs(sc, m, n) ==
    IF sc = "budget" THEN [1..n -> Alphabet(sc, m, n)]
    ELSE {[i \in 1..n |-> NoInstr]}

(***************************************************************************)
(* State.                                                                  *)
(***************************************************************************)
VARIABLES
    pu,                     \* the ProcessingUnit
    program,                \* the program; a cell is fixed when first fetched
    max_instruction_count,  \* mic
    instruction_count,
    instruction_pointer,
    pc,                     \* "loop": in execute_program's while loop,
                            \* "done": execute_program returned to run,
                            \* "returned": run returned the snapshot,
                            \* "exited": std::process::exit(1) was called,
                            \* "panicked": the thread panicked
    stderr,                 \* the fault written by eprintln!, or NoFault
    snapshot,               \* the ProcessingUnitState run returns
    overflow_checks,        \* the build's overflow checks: "on", "off", or
                            \* "unknown" while no operation has overflowed
    scenario,               \* the instruction set the program is drawn from
    last,                   \* history: the instruction dispatched last, the
                            \* state it was dispatched in, and the
                            \* instruction dispatched before it
    pushed,                 \* history: the latest Push, until the next
                            \* stack operation
    tick,                   \* history: the parity of the number of
                            \* instructions dispatched so far
    stack_depth,            \* history: the Pushes that succeeded minus the
                            \* Pops that succeeded
    executed                \* history: the instructions dispatched, other
                            \* than Halt and taken Jmp/B/Jz/Bz/Jnz/Bnz

vars == <<pu, program, max_instruction_count, instruction_count, instruction_pointer,
          pc, stderr, snapshot, overflow_checks, scenario, last, pushed, tick,
          stack_depth, executed>>

NoSnapshot == [registers |-> << >>, stack |-> << >>, taken |-> FALSE]
NoPush == [active |-> FALSE, value |-> 0, stack_pointer |-> 0,
           overwritten |-> FALSE, between |-> FALSE]
NoPrev == [instr |-> NoInstr, pu |-> initialize(0, 1)]
NoLast == [instr |-> NoInstr, pu |-> initialize(0, 1), instruction_pointer |-> 0,
           instruction_count |-> 0, pushed |-> NoPush, prev |-> NoPrev]

Init ==
    \E sc \in Scenarios :
      \E m \in MemSizes(sc), n \in 0..MaxProgLen, mic \in Budgets(sc) :
        /\ scenario = sc
        /\ pu = initialize(NumRegs, m)
        /\ program \in Programs(sc, m, n)
        /\ max_instruction_count = mic
        /\ instruction_count = 0
        /\ instruction_pointer = 0
        /\ pc = "loop"
        /\ stderr = NoFault
        /\ snapshot = NoSnapshot
        /\ overflow_checks = "unknown"
        /\ last = NoLast
        /\ pushed = NoPush
        /\ tick = 0
        /\ stack_depth = 0
        /\ executed = 0


(***************************************************************************)
(* execute_program: one action per opcode arm, each a whole loop           *)
(* iteration (budget check, fetch, dispatch, advance).                     *)
(***************************************************************************)
\* mutant of Fetchable: the budget check lets one instruction too many through
fetchable_past_budget ==
    /\ pc = "loop"
    /\ instruction_pointer < Len(program)
    /\ ~(instruction_count > max_instruction_count)

\* while instruction_pointer < program.len(), past the budget check
Fetchable ==
    /\ pc = "loop"
    /\ instruction_pointer < Len(program)
    /\ ~(instruction_count >= max_instruction_count)

\* &program[instruction_pointer], when the loop gets to fetch it
Candidates ==
    IF ~Fetchable THEN {}
    ELSE IF program[instruction_pointer + 1] = NoInstr
      THEN Alphabet(scenario, MemLen(pu), Len(program))
      ELSE {program[instruction_pointer + 1]}

\* the overflow checks of the build that is running
BuildChoices == IF overflow_checks = "unknown" THEN BOOLEAN ELSE {overflow_checks = "on"}

\* the history of Pushes: a successful Push starts it, any other stack
\* operation ends it, and an instruction in between is noted (a Store to the
\* cell the Push wrote, memory[stack_pointer before the Push], in particular)
PushedAfter(instr) ==
    IF instr.opcode = "Push" /\ push(pu, instr.reg1).status = "ok"
      THEN [active |-> TRUE, value |-> pu.registers[instr.reg1],
            stack_pointer |-> pu.stack_pointer, overwritten |-> FALSE, between |-> FALSE]
    ELSE IF instr.opcode \in {"Push", "Pop"} \/ ~pushed.active THEN NoPush
    ELSE [pushed EXCEPT !.between = TRUE,
                        !.overwritten = pushed.overwritten
                                          \/ (/\ instr.opcode = "Store"
                                              /\ instr.addr = pushed.stack_pointer
                                              /\ store(pu, instr.reg1, instr.addr).status = "ok")]

\* instr, dispatched in unit p, is a Jmp/B, or a Jz/Bz/Jnz/Bnz whose condition
\* holds
RedirectTaken(instr, p) ==
    \/ instr.opcode \in {"Jmp", "B"}
    \/ /\ instr.opcode \in {"Jz", "Bz", "Jnz", "Bnz"}
       /\ instr.reg1 < RegLen(p)
       /\ (p.registers[instr.reg1] = 0) <=> (instr.opcode \in {"Jz", "Bz"})

\* the history of the stack's depth
StackDepthAfter(instr) ==
    IF instr.opcode = "Push" /\ push(pu, instr.reg1).status = "ok" THEN stack_depth + 1
    ELSE IF instr.opcode = "Pop" /\ pop(pu, instr.reg1).status = "ok" THEN stack_depth - 1
    ELSE stack_depth

Dispatch(instr) ==
    /\ program' = [program EXCEPT ![instruction_pointer + 1] = instr]
    /\ last' = [instr |-> instr, pu |-> pu, instruction_pointer |-> instruction_pointer,
                instruction_count |-> instruction_count, pushed |-> pushed,
                prev |-> [instr |-> last.instr, pu |-> last.pu]]
    /\ pushed' = PushedAfter(instr)
    /\ tick' = 1 - tick
    /\ stack_depth' = StackDepthAfter(instr)
    /\ executed' = IF instr.opcode = "Halt" \/ RedirectTaken(instr, pu)
                     THEN executed ELSE executed + 1
    /\ UNCHANGED <<max_instruction_count, snapshot, scenario>>

\* the end of an arm that does not redirect: the fall-through advance, or the
\* way out the operation took
Complete(r, checks) ==
    /\ pu' = r.pu
    /\ overflow_checks' = IF r.overflowed THEN (IF checks THEN "on" ELSE "off")
                          ELSE overflow_checks
    /\ IF r.status = "ok"
         THEN /\ instruction_count' = instruction_count + 1
              /\ instruction_pointer' = instruction_pointer + 1
              /\ UNCHANGED <<pc, stderr>>
         ELSE /\ pc' = IF r.status = "exit" THEN "exited" ELSE "panicked"
              /\ stderr' = r.fault
              /\ UNCHANGED <<instruction_count, instruction_pointer>>

\* mutant of Redirect: a target past the end of the program is a fault
redirect_validated(addr) ==
    IF addr < Len(program)
      THEN /\ instruction_pointer' = addr
           /\ UNCHANGED <<pu, instruction_count, pc, stderr, overflow_checks>>
      ELSE /\ pc' = "exited"
           /\ stderr' = MemoryOutOfBounds(addr)
           /\ UNCHANGED <<pu, instruction_count, instruction_pointer, overflow_checks>>

\* instruction_pointer = instr.addr; continue;
Redirect(addr) ==
    /\ instruction_pointer' = addr
    /\ UNCHANGED <<pu, instruction_count, pc, stderr, overflow_checks>>

\* mutant of RedirectAndAdvance: the taken branch skips the advance, as a
\* `continue` would
redirect_and_continue(addr) ==
    /\ instruction_pointer' = addr
    /\ UNCHANGED <<pu, instruction_count, pc, stderr, overflow_checks>>

\* instruction_pointer = instr.addr; and then the fall-through advance
RedirectAndAdvance(addr) ==
    /\ instruction_pointer' = addr + 1
    /\ instruction_count' = instruction_count + 1
    /\ UNCHANGED <<pu, pc, stderr, overflow_checks>>

\* The arms of the opcodes that have an alias (Jmp / B, Jz / Bz, Jnz / Bnz,
\* And / Test): what the match arm does once the instruction is fetched.
JmpArm(instr) == Redirect(instr.addr)

BArm(instr) == Redirect(instr.addr)

JzArm(instr) ==
    IF ~check_register_bounds(pu, instr.reg1)
      THEN Complete(Exit(pu, RegisterOutOfBounds(instr.reg1)), FALSE)
    ELSE IF jz_taken(pu, instr.reg1) THEN Redirect(instr.addr)
    ELSE Complete(Ok(pu, FALSE), FALSE)

BzArm(instr) ==
    IF ~check_register_bounds(pu, instr.reg1)
      THEN Complete(Exit(pu, RegisterOutOfBounds(instr.reg1)), FALSE)
    ELSE IF jz_taken(pu, instr.reg1) THEN Redirect(instr.addr)
    ELSE Complete(Ok(pu, FALSE), FALSE)

JnzArm(instr) ==
    IF ~check_register_bounds(pu, instr.reg1)
      THEN Complete(Exit(pu, RegisterOutOfBounds(instr.reg1)), FALSE)
    ELSE IF jnz_taken(pu, instr.reg1) THEN Redirect(instr.addr)
    ELSE Complete(Ok(pu, FALSE), FALSE)

BnzArm(instr) ==
    IF ~check_register_bounds(pu, instr.reg1)
      THEN Complete(Exit(pu, RegisterOutOfBounds(instr.reg1)), FALSE)
    ELSE IF jnz_taken(pu, instr.reg1) THEN Redirect(instr.addr)
    ELSE Complete(Ok(pu, FALSE), FALSE)

AndArm(instr) == Complete(and_op(pu, instr.reg1, instr.reg2, instr.reg3), FALSE)

TestArm(instr) == Complete(test_op(pu, instr.reg1, instr.reg2, instr.reg3), FALSE)

BudgetExceeded ==
    /\ pc = "loop"
    /\ instruction_pointer < Len(program)
    /\ instruction_count >= max_instruction_count
    /\ pc' = "exited"
    /\ stderr' = InstructionBudgetExceeded
    /\ UNCHANGED <<pu, program, max_instruction_count, instruction_count,
                   instruction_pointer, snapshot, overflow_checks, scenario, last, pushed, tick,
                   stack_depth, executed>>

Add ==
    \E instr \in Candidates, checks \in BuildChoices :
      /\ Fetchable
      /\ instr.opcode = "Add"
      /\ Dispatch(instr)
      /\ Complete(add(pu, instr.reg1, instr.reg2, instr.reg3, checks), checks)

Sub ==
    \E instr \in Candidates, checks \in BuildChoices :
      /\ Fetchable
      /\ instr.opcode = "Sub"
      /\ Dispatch(instr)
      /\ Complete(subtract(pu, instr.reg1, instr.reg2, instr.reg3, checks), checks)

Mul ==
    \E instr \in Candidates, checks \in BuildChoices :
      /\ Fetchable
      /\ instr.opcode = "Mul"
      /\ Dispatch(instr)
      /\ Complete(multiply(pu, instr.reg1, instr.reg2, instr.reg3, checks), checks)

Div ==
    \E instr \in Candidates :
      /\ Fetchable
      /\ instr.opcode = "Div"
      /\ Dispatch(instr)
      /\ Complete(divide(pu, instr.reg1, instr.reg2, instr.reg3), FALSE)

And ==
    \E instr \in Candidates :
      /\ Fetchable
      /\ instr.opcode = "And"
      /\ Dispatch(instr)
      /\ AndArm(instr)

Or ==
    \E instr \in Candidates :
      /\ Fetchable
      /\ instr.opcode = "Or"
      /\ Dispatch(instr)
      /\ Complete(or_op(pu, instr.reg1, instr.reg2, instr.reg3), FALSE)

Xor ==
    \E instr \in Candidates :
      /\ Fetchable
      /\ instr.opcode = "Xor"
      /\ Dispatch(instr)
      /\ Complete(xor_op(pu, instr.reg1, instr.reg2, instr.reg3), FALSE)

Shl ==
    \E instr \in Candidates, checks \in BuildChoices :
      /\ Fetchable
      /\ instr.opcode = "Shl"
      /\ Dispatch(instr)
      /\ Complete(shl_op(pu, instr.reg1, instr.reg2, instr.reg3, checks), checks)

Shr ==
    \E instr \in Candidates, checks \in BuildChoices :
      /\ Fetchable
      /\ instr.opcode = "Shr"
      /\ Dispatch(instr)
      /\ Complete(shr_op(pu, instr.reg1, instr.reg2, instr.reg3, checks), checks)

Cmp ==
    \E instr \in Candidates, checks \in BuildChoices :
      /\ Fetchable
      /\ instr.opcode = "Cmp"
      /\ Dispatch(instr)
      /\ Complete(cmp_op(pu, instr.reg1, instr.reg2, instr.reg3, checks), checks)

Test ==
    \E instr \in Candidates :
      /\ Fetchable
      /\ instr.opcode = "Test"
      /\ Dispatch(instr)
      /\ TestArm(instr)

Mod ==
    \E instr \in Candidates :
      /\ Fetchable
      /\ instr.opcode = "Mod"
      /\ Dispatch(instr)
      /\ Complete(mod_op(pu, instr.reg1, instr.reg2, instr.reg3), FALSE)

Neg ==
    \E instr \in Candidates, checks \in BuildChoices :
      /\ Fetchable
      /\ instr.opcode = "Neg"
      /\ Dispatch(instr)
      /\ Complete(neg(pu, instr.reg1, instr.reg2, checks), checks)

Abs ==
    \E instr \in Candidates, checks \in BuildChoices :
      /\ Fetchable
      /\ instr.opcode = "Abs"
      /\ Dispatch(instr)
      /\ Complete(absolute(pu, instr.reg1, instr.reg2, checks), checks)

Not ==
    \E instr \in Candidates :
      /\ Fetchable
      /\ instr.opcode = "Not"
      /\ Dispatch(instr)
      /\ Complete(not_op(pu, instr.reg1, instr.reg2), FALSE)

Mov ==
    \E instr \in Candidates :
      /\ Fetchable
      /\ instr.opcode = "Mov"
      /\ Dispatch(instr)
      /\ Complete(mov(pu, instr.reg1, instr.reg2), FALSE)

Store ==
    \E instr \in Candidates :
      /\ Fetchable
      /\ instr.opcode = "Store"
      /\ Dispatch(instr)
      /\ Complete(store(pu, instr.reg1, instr.addr), FALSE)

Load ==
    \E instr \in Candidates :
      /\ Fetchable
      /\ instr.opcode = "Load"
      /\ Dispatch(instr)
      /\ Complete(load(pu, instr.addr, instr.reg1), FALSE)

LoadImmediate ==
    \E instr \in Candidates :
      /\ Fetchable
      /\ instr.opcode = "LoadImmediate"
      /\ Dispatch(instr)
      /\ Complete(load_immediate(pu, instr.reg1, instr.immediate), FALSE)

Push ==
    \E instr \in Candidates :
      /\ Fetchable
      /\ instr.opcode = "Push"
      /\ Dispatch(instr)
      /\ Complete(push(pu, instr.reg1), FALSE)

Pop ==
    \E instr \in Candidates :
      /\ Fetchable
      /\ instr.opcode = "Pop"
      /\ Dispatch(instr)
      /\ Complete(pop(pu, instr.reg1), FALSE)

Inc ==
    \E instr \in Candidates, checks \in BuildChoices :
      /\ Fetchable
      /\ instr.opcode = "Inc"
      /\ Dispatch(instr)
      /\ Complete(inc_op(pu, instr.reg1, checks), checks)

Dec ==
    \E instr \in Candidates, checks \in BuildChoices :
      /\ Fetchable
      /\ instr.opcode = "Dec"
      /\ Dispatch(instr)
      /\ Complete(dec_op(pu, instr.reg1, checks), checks)

Nop ==
    \E instr \in Candidates :
      /\ Fetchable
      /\ instr.opcode = "Nop"
      /\ Dispatch(instr)
      /\ Complete(Ok(pu, FALSE), FALSE)

Jmp ==
    \E instr \in Candidates :
      /\ Fetchable
      /\ instr.opcode = "Jmp"
      /\ Dispatch(instr)
      /\ JmpArm(instr)

B ==
    \E instr \in Candidates :
      /\ Fetchable
      /\ instr.opcode = "B"
      /\ Dispatch(instr)
      /\ BArm(instr)

Jz ==
    \E instr \in Candidates :
      /\ Fetchable
      /\ instr.opcode = "Jz"
      /\ Dispatch(instr)
      /\ JzArm(instr)

Jnz ==
    \E instr \in Candidates :
      /\ Fetchable
      /\ instr.opcode = "Jnz"
      /\ Dispatch(instr)
      /\ JnzArm(instr)

Bz ==
    \E instr \in Candidates :
      /\ Fetchable
      /\ instr.opcode = "Bz"
      /\ Dispatch(instr)
      /\ BzArm(instr)

Bnz ==
    \E instr \in Candidates :
      /\ Fetchable
      /\ instr.opcode = "Bnz"
      /\ Dispatch(instr)
      /\ BnzArm(instr)

Je ==
    \E instr \in Candidates :
      /\ Fetchable
      /\ instr.opcode = "Je"
      /\ Dispatch(instr)
      /\ IF CheckRegisters(pu, <<instr.reg1, instr.reg2>>) # NoFault
           THEN Complete(Exit(pu, CheckRegisters(pu, <<instr.reg1, instr.reg2>>)), FALSE)
         ELSE IF je_taken(pu, instr.reg1, instr.reg2) THEN RedirectAndAdvance(instr.addr)
         ELSE Complete(Ok(pu, FALSE), FALSE)

Jne ==
    \E instr \in Candidates :
      /\ Fetchable
      /\ instr.opcode = "Jne"
      /\ Dispatch(instr)
      /\ IF CheckRegisters(pu, <<instr.reg1, instr.reg2>>) # NoFault
           THEN Complete(Exit(pu, CheckRegisters(pu, <<instr.reg1, instr.reg2>>)), FALSE)
         ELSE IF jne_taken(pu, instr.reg1, instr.reg2) THEN RedirectAndAdvance(instr.addr)
         ELSE Complete(Ok(pu, FALSE), FALSE)

\* mutant of Halt: the loop is left after the advance, not before it
halt_after_advance ==
    \E instr \in Candidates :
      /\ Fetchable
      /\ instr.opcode = "Halt"
      /\ Dispatch(instr)
      /\ pc' = "done"
      /\ instruction_count' = instruction_count + 1
      /\ instruction_pointer' = instruction_pointer + 1
      /\ UNCHANGED <<pu, stderr, overflow_checks>>

\* Opcode::Halt => break
Halt ==
    \E instr \in Candidates :
      /\ Fetchable
      /\ instr.opcode = "Halt"
      /\ Dispatch(instr)
      /\ pc' = "done"
      /\ UNCHANGED <<pu, instruction_count, instruction_pointer, stderr, overflow_checks>>

\* the while condition fails: execute_program returns
ProgramEnd ==
    /\ pc = "loop"
    /\ ~(instruction_pointer < Len(program))
    /\ pc' = "done"
    /\ UNCHANGED <<pu, program, max_instruction_count, instruction_count,
                   instruction_pointer, stderr, snapshot, overflow_checks, scenario,
                   last, pushed, tick, stack_depth, executed>>

\* mutant of StackOf: the slice starts at stack_pointer itself
StackOf_from_pointer(p) ==
    [i \in 1..(MemLen(p) - p.stack_pointer) |-> p.memory[p.stack_pointer + i - 1]]

\* pu.memory[pu.stack_pointer + 1..].to_vec()
StackOf(p) ==
    [i \in 1..(MemLen(p) - p.stack_pointer - 1) |-> p.memory[p.stack_pointer + i]]

\* run, after execute_program has returned
run_return ==
    /\ pc = "done"
    /\ snapshot' = [registers |-> pu.registers, stack |-> StackOf(pu), taken |-> TRUE]
    /\ pc' = "returned"
    /\ UNCHANGED <<pu, program, max_instruction_count, instruction_count,
                   instruction_pointer, stderr, overflow_checks, scenario, last, pushed, tick,
                   stack_depth, executed>>

Next ==
    \/ BudgetExceeded
    \/ Add \/ Sub \/ Mul \/ Div \/ Store \/ Load \/ LoadImmediate \/ Push \/ Pop
    \/ Jmp \/ Jz \/ Jnz \/ Mov \/ Je \/ Jne
    \/ And \/ Or \/ Xor \/ Not \/ Shl \/ Shr \/ Cmp \/ Test
    \/ B \/ Bz \/ Bnz \/ Neg \/ Abs \/ Mod \/ Inc \/ Dec \/ Nop \/ Halt
    \/ ProgramEnd
    \/ run_return

Spec == Init /\ [][Next]_vars

\* execute_program is a loop that keeps running until it leaves
FairSpec == Spec /\ WF_vars(Next)

Terminated == pc \in {"returned", "exited", "panicked"}


(***************************************************************************)
(* Properties.                                                             *)
(***************************************************************************)

\* C1: every run of execute_program terminates: it ends by Halt, by the
\* instruction pointer reaching program.len(), or by a fault; a program that
\* keeps looping through taken redirects ends with the budget fault.
C1_EveryRunTerminates == <>Terminated


\* C2: in every reachable state 0 <= stack_pointer <= M-1; it starts at M-1,
\* Push never takes it below 0 and Pop never past M-1.
C2_StackPointerInRange ==
    /\ 0 <= pu.stack_pointer
    /\ pu.stack_pointer <= MemLen(pu) - 1
    /\ (last = NoLast => pu.stack_pointer = MemLen(pu) - 1)

\* the stack is full (stack_pointer = 0) after Pushes into a memory of the
\* largest size
C2_Witness ==
    /\ pushed.active
    /\ pu.stack_pointer = 0
    /\ MemLen(pu) = MaxMem

FaultKinds ==
    {"RegisterOutOfBounds", "MemoryOutOfBounds", "DivisionByZero", "StackOverflow",
     "StackUnderflow"}

\* C3: when an instruction faults (register or memory out of bounds, division
\* by zero, stack overflow, stack underflow), registers, memory and
\* stack_pointer are as they were when the instruction was fetched.
C3_FaultLeavesUnitUnchanged ==
    (pc = "exited" /\ stderr.kind \in FaultKinds) => pu = last.pu

\* a Pop faults with stack underflow after earlier instructions changed the unit
C3_Witness ==
    /\ pc = "exited"
    /\ stderr.kind = "StackUnderflow"
    /\ last.instr.opcode = "Pop"
    /\ pu # initialize(NumRegs, MemLen(pu))

\* the register operands an opcode's arm checks and uses
Touched(instr) ==
    IF instr.opcode \in ThreeRegOps THEN {instr.reg1, instr.reg2, instr.reg3}
    ELSE IF instr.opcode \in TwoRegOps \cup {"Je", "Jne"} THEN {instr.reg1, instr.reg2}
    ELSE IF instr.opcode \in OneRegOps \cup {"Store", "Load"} THEN {instr.reg1}
    ELSE {}

\* the run ended with the register-out-of-bounds fault for an index >= N
RegisterFaultOf(instr) ==
    /\ pc = "exited"
    /\ stderr.kind = "RegisterOutOfBounds"
    /\ stderr.operand \in Touched(instr)
    /\ stderr.operand >= RegLen(last.pu)
    /\ pu.registers = last.pu.registers

\* a register operand >= N on any opcode ends the run with the register fault
C4_RegisterPart ==
    (\E r \in Touched(last.instr) : r >= RegLen(last.pu)) => RegisterFaultOf(last.instr)

\* C4 as claimed: a register operand >= N ends the run with the
\* register-out-of-bounds fault, and the addr of a Store or Load >= M ends it
\* with the memory-out-of-bounds fault.
C4_AsClaimed ==
    /\ C4_RegisterPart
    /\ (last.instr.opcode \in {"Store", "Load"} /\ last.instr.addr >= MemLen(last.pu))
         => (pc = "exited" /\ stderr = MemoryOutOfBounds(last.instr.addr))

\* C4, amended: the memory-out-of-bounds fault is raised when the register
\* operand of the Store or Load is < N (the register is checked first).
C4_OutOfBoundsFaults ==
    /\ C4_RegisterPart
    /\ (/\ last.instr.opcode \in {"Store", "Load"}
        /\ last.instr.addr >= MemLen(last.pu)
        /\ last.instr.reg1 < RegLen(last.pu))
         => (/\ pc = "exited"
             /\ stderr = MemoryOutOfBounds(last.instr.addr)
             /\ pu = last.pu)

\* a Load from address M with a valid register ended the run
C4_Witness ==
    /\ last.instr.opcode = "Load"
    /\ last.instr.addr = MemLen(last.pu)
    /\ last.instr.reg1 < RegLen(last.pu)
    /\ stderr.kind = "MemoryOutOfBounds"

\* C5: Div or Mod with valid registers and registers[reg2] = 0 ends the run at
\* that instruction with the division-by-zero fault naming reg2 and the value
\* 0, and no later instruction is executed.
C5_DivisionByZero ==
    (/\ last.instr.opcode \in {"Div", "Mod"}
     /\ \A r \in Touched(last.instr) : r < RegLen(last.pu)
     /\ last.pu.registers[last.instr.reg2] = 0)
      => (/\ pc = "exited"
          /\ stderr = DivisionByZero(last.instr.reg2, 0)
          /\ ~ENABLED Next)

\* a Mod by a zero register, with a nonzero dividend, ended the run
C5_Witness ==
    /\ last.instr.opcode = "Mod"
    /\ stderr.kind = "DivisionByZero"
    /\ last.pu.registers[last.instr.reg1] # 0


\* the first k instructions of the program are Pushes of valid registers
PushRun(k) ==
    /\ k <= Len(program)
    /\ \A i \in 1..k : program[i].opcode = "Push" /\ program[i].reg1 < RegLen(pu)

\* C6: Push with a valid register faults with stack overflow exactly when
\* stack_pointer = 0 and otherwise writes memory[stack_pointer] = registers[reg]
\* and then decrements stack_pointer; from an empty stack in a memory of size M
\* exactly M-1 consecutive Pushes succeed and the M-th overflows; memory[0] is
\* never written by Push.
C6_PushOverflow ==
    /\ (last.instr.opcode = "Push" /\ last.instr.reg1 < RegLen(last.pu))
         => IF last.pu.stack_pointer = 0
              THEN /\ pc = "exited"
                   /\ stderr = StackOverflow(last.instr.reg1)
                   /\ pu = last.pu
              ELSE /\ stderr.kind # "StackOverflow"
                   /\ pu.memory = [last.pu.memory EXCEPT
                                     ![last.pu.stack_pointer] = last.pu.registers[last.instr.reg1]]
                   /\ pu.stack_pointer = last.pu.stack_pointer - 1
                   /\ pu.registers = last.pu.registers
                   /\ pu.memory[0] = last.pu.memory[0]
    /\ \A k \in 0..Len(program) :
         \* k Pushes in a row from the empty stack, all of them done
         /\ (PushRun(k) /\ instruction_pointer = k /\ instruction_count = k)
              => (k <= MemLen(pu) - 1 /\ pu.stack_pointer = MemLen(pu) - 1 - k)
         \* the k-th of them overflowed
         /\ (/\ k >= 1
             /\ PushRun(k)
             /\ last.instruction_pointer = k - 1
             /\ last.instruction_count = k - 1
             /\ last.instr = program[k]
             /\ stderr.kind = "StackOverflow")
              => k = MemLen(pu)

\* in a memory of the largest size, MaxMem - 1 Pushes succeeded and the next
\* one overflowed
C6_Witness ==
    /\ MemLen(pu) = MaxMem
    /\ PushRun(MaxMem)
    /\ instruction_count = MaxMem - 1
    /\ last.instr.opcode = "Push"
    /\ stderr.kind = "StackOverflow"

\* the latest stack operation was a Pop of a valid register, and the stack
\* operation before it a Push
PopAfterPush ==
    /\ last.instr.opcode = "Pop"
    /\ last.instr.reg1 < RegLen(last.pu)
    /\ last.pushed.active

\* C7 as claimed: Push(r), then non-stack instructions, then Pop(r'): the Pop
\* puts the pushed value into r' and stack_pointer is back at its value before
\* the Push.
C7_AsClaimed ==
    PopAfterPush
      => (/\ pu.registers[last.instr.reg1] = last.pushed.value
          /\ pu.stack_pointer = last.pushed.stack_pointer)

\* C7, amended: stack_pointer is back at its value before the Push, and r'
\* holds the pushed value provided no Store in between wrote the address the
\* Push wrote (stack_pointer as it was before the Push).
C7_PushPopRoundTrip ==
    PopAfterPush
      => (/\ pc # "exited"
          /\ pu.stack_pointer = last.pushed.stack_pointer
          /\ (~last.pushed.overwritten
                => pu.registers[last.instr.reg1] = last.pushed.value))

\* a nonzero value was pushed and popped back, with an instruction in between
C7_Witness ==
    /\ PopAfterPush
    /\ last.pushed.between
    /\ ~last.pushed.overwritten
    /\ last.pushed.value # 0
    /\ pu.registers[last.instr.reg1] = last.pushed.value

\* the latest instruction is Load(a, r') with valid operands and the one
\* dispatched just before it Store(r, a) with a valid register
LoadAfterStore ==
    /\ last.instr.opcode = "Load"
    /\ last.prev.instr.opcode = "Store"
    /\ last.instr.addr = last.prev.instr.addr
    /\ last.instr.addr < MemLen(last.pu)
    /\ last.instr.reg1 < RegLen(last.pu)
    /\ last.prev.instr.reg1 < RegLen(last.pu)

\* C8: Store(r, a) immediately followed by Load(a, r'), all operands valid,
\* leaves memory[a] = registers[r] and registers[r'] equal to the value r held
\* at the Store.
C8_StoreLoadRoundTrip ==
    LoadAfterStore
      => (/\ pc # "exited"
          /\ pu.memory[last.instr.addr] = pu.registers[last.prev.instr.reg1]
          /\ pu.registers[last.instr.reg1]
               = last.prev.pu.registers[last.prev.instr.reg1])

\* a nonzero value went through a cell of the active stack region into
\* another register
C8_Witness ==
    /\ LoadAfterStore
    /\ last.instr.addr > last.pu.stack_pointer
    /\ last.instr.reg1 # last.prev.instr.reg1
    /\ pu.registers[last.instr.reg1] # 0

\* the latest instruction is a redirect that was taken
TakenRedirect ==
    \/ last.instr.opcode \in {"Jmp", "B"}
    \/ /\ last.instr.opcode \in {"Jz", "Bz"}
       /\ last.instr.reg1 < RegLen(last.pu)
       /\ last.pu.registers[last.instr.reg1] = 0
    \/ /\ last.instr.opcode \in {"Jnz", "Bnz"}
       /\ last.instr.reg1 < RegLen(last.pu)
       /\ last.pu.registers[last.instr.reg1] # 0

\* the latest instruction is a conditional redirect whose condition was false
UntakenRedirect ==
    \/ /\ last.instr.opcode \in {"Jz", "Bz"}
       /\ last.instr.reg1 < RegLen(last.pu)
       /\ last.pu.registers[last.instr.reg1] # 0
    \/ /\ last.instr.opcode \in {"Jnz", "Bnz"}
       /\ last.instr.reg1 < RegLen(last.pu)
       /\ last.pu.registers[last.instr.reg1] = 0

\* C9: after a taken Jmp/B/Jz/Bz/Jnz/Bnz to k < program.len() the next
\* instruction fetched is program[k] and instruction_count is unchanged; when
\* the condition is false the next instruction is the one at
\* instruction_pointer + 1 and instruction_count is one more.  (Fetchable with
\* instruction_pointer = k: the loop's next fetch is program[k].)
C9_RedirectLandsOnTarget ==
    /\ (TakenRedirect /\ last.instr.addr < Len(program))
         => (/\ instruction_pointer = last.instr.addr
             /\ instruction_count = last.instruction_count
             /\ Fetchable)
    /\ UntakenRedirect
         => (/\ instruction_pointer = last.instruction_pointer + 1
             /\ instruction_count = last.instruction_count + 1
             /\ pc # "panicked"
             /\ stderr.kind \in {"None", "InstructionBudgetExceeded"})

\* a Jnz on a nonzero register went backwards to an instruction fetched before
C9_Witness ==
    /\ TakenRedirect
    /\ last.instr.opcode = "Jnz"
    /\ last.instr.addr < last.instruction_pointer
    /\ instruction_pointer = last.instr.addr

\* C10: on a fatal fault the engine reports the fault to its caller as data
\* and returns control to the caller; it does not terminate the host process.
C10_FaultReturnsToCaller ==
    stderr # NoFault => pc # "exited"

\* C11: when a run ends without a fault, the snapshot run returns has registers
\* equal to the final registers and stack equal to memory[stack_pointer+1 .. M)
\* in increasing address order; the stack's length is M-1-stack_pointer, which
\* is the number of Pushes that succeeded minus the number of Pops that
\* succeeded.
C11_SnapshotOfFinalState ==
    pc = "returned"
      => (/\ stderr = NoFault
          /\ snapshot.registers = pu.registers
          /\ Len(snapshot.stack) = MemLen(pu) - 1 - pu.stack_pointer
          /\ \A i \in 1..Len(snapshot.stack) :
               snapshot.stack[i] = pu.memory[pu.stack_pointer + i]
          /\ Len(snapshot.stack) = stack_depth)

\* two different values were pushed and are returned, the later one first
C11_Witness ==
    /\ pc = "returned"
    /\ Len(snapshot.stack) = 2
    /\ snapshot.stack[1] > snapshot.stack[2]
    /\ snapshot.stack[2] > 0

\* the register an arithmetic opcode writes, and the value signed 32-bit
\* wraparound arithmetic gives it in unit p
ArithOps == {"Add", "Sub", "Mul", "Neg", "Abs", "Cmp", "Inc", "Dec"}

ArithTarget(instr) ==
    IF instr.opcode \in {"Add", "Sub", "Mul", "Cmp"} THEN instr.reg3
    ELSE IF instr.opcode \in {"Neg", "Abs"} THEN instr.reg2
    ELSE instr.reg1

Wrapped(instr, p) ==
    CASE instr.opcode = "Add" -> WrapAdd(p.registers[instr.reg1], p.registers[instr.reg2])
      [] instr.opcode \in {"Sub", "Cmp"} ->
           WrapSub(p.registers[instr.reg1], p.registers[instr.reg2])
      [] instr.opcode = "Mul" -> WrapMul(p.registers[instr.reg1], p.registers[instr.reg2])
      [] instr.opcode = "Neg" -> WrapNeg(p.registers[instr.reg1])
      [] instr.opcode = "Abs" ->
           IF p.registers[instr.reg1] = MinI32 THEN MinI32
           ELSE IF p.registers[instr.reg1] < 0 THEN -p.registers[instr.reg1]
           ELSE p.registers[instr.reg1]
      [] instr.opcode = "Inc" -> WrapAdd(p.registers[instr.reg1], 1)
      [] instr.opcode = "Dec" -> WrapSub(p.registers[instr.reg1], 1)

\* C12: Add, Sub, Mul, Neg, Abs, Cmp, Inc and Dec compute in signed 32-bit
\* wraparound arithmetic: with valid registers the instruction completes
\* without a fault or trap and writes the wrapped result, whether or not the
\* exact result fits in 32 bits; Abs of -2^31 writes -2^31.
C12_WraparoundArithmetic ==
    (/\ last.instr.opcode \in ArithOps
     /\ \A r \in Touched(last.instr) : r < RegLen(last.pu))
      => (/\ pc # "panicked"
          /\ stderr.kind \in {"None", "InstructionBudgetExceeded"}
          /\ pu = SetReg(last.pu, ArithTarget(last.instr), Wrapped(last.instr, last.pu)))

\* q and r are the quotient truncated toward zero and the remainder of a by d:
\* a = q * d + r, |r| < |d|, and r is zero or has the sign of a
TruncatedDivision(a, d, q, r) ==
    /\ WrapAdd(WrapMul(q, d), r) = a
    /\ ~MulOverflows(q, d)
    /\ (IF r < 0 THEN -r ELSE r) < (IF d = MinI32 THEN MaxI32 ELSE IF d < 0 THEN -d ELSE d)
         \/ (d = MinI32 /\ r = MaxI32)
    /\ r = 0 \/ ((r < 0) <=> (a < 0))

\* C13: with valid registers and registers[reg2] # 0, Div completes without a
\* fault and writes the quotient truncated toward zero into reg3, and Mod
\* completes without a fault and writes the remainder, whose sign follows the
\* dividend; division by zero is the only way Div or Mod faults on valid
\* indices, dividend -2^31 with divisor -1 included.
C13_TruncatingDivision ==
    (/\ last.instr.opcode \in {"Div", "Mod"}
     /\ \A r \in Touched(last.instr) : r < RegLen(last.pu)
     /\ last.pu.registers[last.instr.reg2] # 0)
      => (/\ pc # "panicked"
          /\ stderr.kind \in {"None", "InstructionBudgetExceeded"}
          /\ LET a == last.pu.registers[last.instr.reg1]
                 d == last.pu.registers[last.instr.reg2]
             IN  /\ pu = SetReg(last.pu, last.instr.reg3,
                                IF last.instr.opcode = "Div" THEN TruncDiv(a, d)
                                                             ELSE TruncRem(a, d))
                 /\ TruncatedDivision(a, d, TruncDiv(a, d), TruncRem(a, d)))

\* C14: Pop with a valid register faults with stack underflow exactly when
\* stack_pointer = M-1 (the stack is empty: every successful Push so far has
\* been matched by a successful Pop), and otherwise increments stack_pointer
\* and then writes registers[reg] = memory[stack_pointer], leaving memory
\* unchanged.
C14_PopUnderflow ==
    /\ (pu.stack_pointer = MemLen(pu) - 1) <=> (stack_depth = 0)
    /\ (last.instr.opcode = "Pop" /\ last.instr.reg1 < RegLen(last.pu))
         => IF last.pu.stack_pointer = MemLen(last.pu) - 1
              THEN /\ pc = "exited"
                   /\ stderr = StackUnderflow(last.instr.reg1)
                   /\ pu = last.pu
              ELSE /\ stderr.kind # "StackUnderflow"
                   /\ pc # "panicked"
                   /\ pu.stack_pointer = last.pu.stack_pointer + 1
                   /\ pu.registers = [last.pu.registers EXCEPT
                                        ![last.instr.reg1] = last.pu.memory[pu.stack_pointer]]
                   /\ pu.memory = last.pu.memory

\* a Pop took the only value off the stack, a nonzero one, and left memory as
\* it was
C14_Witness ==
    /\ last.instr.opcode = "Pop"
    /\ last.pu.stack_pointer = MemLen(pu) - 2
    /\ pu.stack_pointer = MemLen(pu) - 1
    /\ pu.registers[last.instr.reg1] # 0
    /\ pu.registers[last.instr.reg1] = pu.memory[pu.stack_pointer]

\* the latest instruction is a Je whose registers are equal, or a Jne whose
\* registers differ
TakenCompare ==
    /\ last.instr.opcode \in {"Je", "Jne"}
    /\ last.instr.reg1 < RegLen(last.pu)
    /\ last.instr.reg2 < RegLen(last.pu)
    /\ (last.pu.registers[last.instr.reg1] = last.pu.registers[last.instr.reg2])
         <=> (last.instr.opcode = "Je")

\* the latest instruction is a Je or Jne whose condition was false
UntakenCompare ==
    /\ last.instr.opcode \in {"Je", "Jne"}
    /\ last.instr.reg1 < RegLen(last.pu)
    /\ last.instr.reg2 < RegLen(last.pu)
    /\ (last.pu.registers[last.instr.reg1] = last.pu.registers[last.instr.reg2])
         <=> (last.instr.opcode = "Jne")

InstructionFaulted ==
    \/ pc = "panicked"
    \/ pc = "exited" /\ stderr.kind # "InstructionBudgetExceeded"

\* C16: instruction_count <= max_instruction_count always, and
\* instruction_count is the number of instructions executed so far that fell
\* through to the advance (all but Halt and taken Jmp/B/Jz/Bz/Jnz/Bnz); with
\* instruction_count >= max_instruction_count and instruction_pointer <
\* program.len() nothing is fetched and the run ends with the budget fault,
\* whatever the instruction there (Halt included); when instruction_pointer
\* reaches program.len() as the count reaches the maximum, the run ends
\* without a fault.
C16_InstructionBudget ==
    /\ instruction_count <= max_instruction_count
    /\ instruction_count = executed - (IF InstructionFaulted THEN 1 ELSE 0)
    /\ (/\ pc = "loop"
        /\ instruction_pointer < Len(program)
        /\ instruction_count >= max_instruction_count)
         => (/\ ~Fetchable
             /\ Candidates = {}
             /\ ENABLED BudgetExceeded
             /\ ~ENABLED Halt
             /\ ~ENABLED ProgramEnd)
    /\ stderr = InstructionBudgetExceeded
         => (/\ pc = "exited"
             /\ instruction_pointer < Len(program)
             /\ instruction_count = max_instruction_count
             /\ last # NoLast => last.instruction_count < max_instruction_count)
    /\ (/\ pc = "loop"
        /\ ~(instruction_pointer < Len(program))
        /\ instruction_count = max_instruction_count)
         => (/\ ~ENABLED BudgetExceeded
             /\ ENABLED ProgramEnd
             /\ stderr = NoFault)
    /\ pc \in {"done", "returned"} => stderr = NoFault

\* the budget ran out in front of a Halt, after instructions were executed
C16_Witness ==
    /\ stderr = InstructionBudgetExceeded
    /\ program[instruction_pointer + 1].opcode = "Halt"
    /\ instruction_count = max_instruction_count
    /\ instruction_count >= 2
    /\ last.instr.opcode = "Inc"

\* C17: Halt ends the run at once and without a fault: registers, memory,
\* stack_pointer, instruction_pointer and instruction_count are as they were
\* when Halt was fetched, no instruction is executed after it, and the snapshot
\* is the one of the state at that moment.
C17_HaltFrame ==
    last.instr.opcode = "Halt"
      => (/\ pc \in {"done", "returned"}
          /\ stderr = NoFault
          /\ pu = last.pu
          /\ instruction_pointer = last.instruction_pointer
          /\ instruction_count = last.instruction_count
          /\ program[instruction_pointer + 1] = last.instr
          /\ ~Fetchable
          /\ Candidates = {}
          /\ ~ENABLED BudgetExceeded
          /\ pc = "done" => ENABLED run_return
          /\ pc = "returned"
               => (/\ snapshot.registers = last.pu.registers
                   /\ snapshot.stack = StackOf(last.pu)
                   /\ ~ENABLED Next))

\* a Halt in the middle of a program ended the run after the registers and the
\* stack had changed, and the snapshot was returned
C17_Witness ==
    /\ last.instr.opcode = "Halt"
    /\ pc = "returned"
    /\ instruction_pointer + 1 < Len(program)
    /\ Len(snapshot.stack) > 0
    /\ snapshot.stack[1] # 0

\* the arm of the alias of instr's opcode, applied to instr's operands
AliasArm(instr) ==
    CASE instr.opcode = "Jmp" -> BArm(instr)
      [] instr.opcode = "B" -> JmpArm(instr)
      [] instr.opcode = "Jz" -> BzArm(instr)
      [] instr.opcode = "Bz" -> JzArm(instr)
      [] instr.opcode = "Jnz" -> BnzArm(instr)
      [] instr.opcode = "Bnz" -> JnzArm(instr)
      [] instr.opcode = "And" -> TestArm(instr)
      [] instr.opcode = "Test" -> AndArm(instr)
      [] OTHER -> TRUE

\* C18: aliased opcodes are behaviourally identical.  Every step that executes
\* a Jmp, B, Jz, Bz, Jnz, Bnz, And or Test is also a step of the alias's arm on
\* the same operands: from the same registers, memory, stack_pointer,
\* instruction_pointer and instruction_count the alias gives the same
\* instruction_pointer, instruction_count, outcome and unit.  A run being a
\* sequence of such steps from the same initial state, replacing an opcode by
\* its alias yields the same instruction-pointer sequence, outcome and final
\* state.
C18_AliasedOpcodes ==
    [][tick' # tick => AliasArm(last'.instr)]_vars

\* a Test wrote a nonzero result over a different value
C18_Witness ==
    /\ last.instr.opcode = "Test"
    /\ pc = "loop"
    /\ pu.registers[last.instr.reg3] # 0
    /\ pu.registers[last.instr.reg3] # last.pu.registers[last.instr.reg3]

JumpOps == {"Jmp", "B", "Jz", "Bz", "Jnz", "Bnz", "Je", "Jne"}

\* C19: the frame of the instruction set.  The number of registers and the
\* memory length never change; a memory cell is written only by Store (exactly
\* memory[addr]) and by Push (exactly memory[stack_pointer] as it was before
\* the Push); stack_pointer is changed only by Push and Pop; Nop, Halt and
\* every jump/branch opcode, taken or not, change no register, no memory cell
\* and not stack_pointer.
C19_Frame ==
    /\ DOMAIN pu.registers = 0..(NumRegs - 1)
    /\ MemLen(pu) \in MemSizes(scenario)
    /\ DOMAIN pu.memory = 0..(MemLen(pu) - 1)
    /\ last # NoLast
         => (/\ DOMAIN pu.registers = DOMAIN last.pu.registers
             /\ DOMAIN pu.memory = DOMAIN last.pu.memory
             /\ \A a \in DOMAIN pu.memory :
                  pu.memory[a] # last.pu.memory[a]
                    => \/ last.instr.opcode = "Store" /\ a = last.instr.addr
                       \/ last.instr.opcode = "Push" /\ a = last.pu.stack_pointer
             /\ pu.stack_pointer # last.pu.stack_pointer
                  => last.instr.opcode \in {"Push", "Pop"}
             /\ last.instr.opcode \in JumpOps \cup {"Nop", "Halt"} => pu = last.pu)

\* a jump was taken and left alone a unit that earlier instructions had changed
C19_Witness ==
    /\ last.instr.opcode \in JumpOps
    /\ instruction_pointer = last.instr.addr
    /\ instruction_pointer # last.instruction_pointer + 1
    /\ pu = last.pu
    /\ \E r \in DOMAIN pu.registers : pu.registers[r] # 0

\* the run ended normally in the state the latest instruction was fetched in
EndsNormallyThere ==
    /\ pc \in {"loop", "done", "returned"}
    /\ stderr = NoFault
    /\ pu = last.pu
    /\ ~Fetchable
    /\ ~ENABLED BudgetExceeded
    /\ pc = "loop" => ENABLED ProgramEnd
    /\ pc = "returned"
         => (snapshot.registers = last.pu.registers /\ snapshot.stack = StackOf(last.pu))

====
